---- MODULE Spec2Model ----
(***************************************************************************)
(* Model of mythril/ethereum/util.py: the version-pragma pipeline          *)
(*   remove_comments_strings -> extract_version -> parse_pragma ->         *)
(*   semver.SimpleSpec / registry scan -> extract_binary.                  *)
(* Strings are sequences of one-character strings.  Positions are the      *)
(* 0-based positions of the Python source; -1 is "not found".              *)
(***************************************************************************)
EXTENDS Integers, Sequences, FiniteSets, TLC

VARIABLES
    \* remove_comments_strings: its argument, its locals, its position
    prg, todo, done, pc,
    \* parse_pragma: its argument, the tokens, the returned dictionary, its position
    solidity_code, result, ret, ppc,
    \* the module global all_versions; extract_version / extract_binary:
    \* the argument, who called, the locals, os.environ["SOLC"] as read,
    \* the returned binary, the collaborators invoked so far, the position
    all_versions, file, caller, version_line, pragma_dict, version_constraint,
    idx, version, solc_env, binary, calls, epc

stripVars == <<prg, todo, done, pc>>

parseVars == <<solidity_code, result, ret, ppc>>

extractVars == <<all_versions, file, caller, version_line, pragma_dict,
                 version_constraint, idx, version, solc_env, binary, calls, epc>>

vars == <<stripVars, parseVars, extractVars>>

(* ---------------------------------------------------------------------- *)
(* Python string primitives                                                *)
(* ---------------------------------------------------------------------- *)

\* s[a:b]
Slice(s, a, b) == SubSeq(s, a + 1, b)

\* s[a:]
From(s, a) == SubSeq(s, a + 1, Len(s))

\* s.startswith(p, i)
MatchAt(s, p, i) == /\ i >= 0
                    /\ i + Len(p) <= Len(s)
                    /\ Slice(s, i, i + Len(p)) = p

Min(S) == CHOOSE x \in S : \A y \in S : x <= y

\* s.find(p, start)
Find(s, p, start) ==
    LET hits == {i \in start..(Len(s) - Len(p)) : MatchAt(s, p, i)}
    IN  IF hits = {} THEN -1 ELSE Min(hits)

\* p in s
Contains(s, p) == Find(s, p, 0) # -1

\* number of newline characters of s
RECURSIVE CountNL(_)
CountNL(s) == IF s = <<>> THEN 0
              ELSE (IF Head(s) = "\n" THEN 1 ELSE 0) + CountNL(Tail(s))

\* s.split("\n")
RECURSIVE SplitLines(_)
SplitLines(s) ==
    LET end == Find(s, <<"\n">>, 0)
    IN  IF end = -1 THEN <<s>>
        ELSE <<Slice(s, 0, end)>> \o SplitLines(From(s, end + 1))

\* "\n".join(lines)
RECURSIVE JoinLines(_)
JoinLines(lines) ==
    IF lines = <<>> THEN <<>>
    ELSE IF Len(lines) = 1 THEN lines[1]
    ELSE lines[1] \o <<"\n">> \o JoinLines(Tail(lines))

(* ---------------------------------------------------------------------- *)
(* remove_comments_strings                                                 *)
(* ---------------------------------------------------------------------- *)

\* VOID_START = re.compile("//|/\\*|\"|'"): the four triggers
Triggers_NoSingleQuote == { <<"/", "/">>, <<"/", "*">>, <<"\"">> }

Triggers == { <<"/", "/">>, <<"/", "*">>, <<"\"">>, <<"'">> }

\* VOID_START.search(s): m.start() of the leftmost trigger, -1 when none
VoidStart(s) ==
    LET hits == {i \in 0..(Len(s) - 1) : \E t \in Triggers : MatchAt(s, t, i)}
    IN  IF hits = {} THEN -1 ELSE Min(hits)

\* m[0] of the match at position i
VoidKind(s, i) == CHOOSE t \in Triggers : MatchAt(s, t, i)

\* QUOTE_END / DQUOTE_END = "(?<!\\\\)<q>" searched in sub: m2.end(), -1 when none
QuoteEnd_NoLookbehind(sub, q) ==
    LET hits == {j \in 0..(Len(sub) - 1) : sub[j + 1] = q}
    IN  IF hits = {} THEN -1 ELSE Min(hits) + 1

QuoteEnd(sub, q) ==
    LET hits == {j \in 0..(Len(sub) - 1) :
                    /\ sub[j + 1] = q
                    /\ (j = 0 \/ sub[j] # "\\")}
    IN  IF hits = {} THEN -1 ELSE Min(hits) + 1

\* branch "//": the remainder after a line comment opened at [mStart, mEnd)
AfterLineComment_Stuck(t, mEnd) ==
    LET end == Find(t, <<"\n">>, mEnd)
    IN  IF end = -1 THEN t ELSE From(t, end)

AfterLineComment_EatsNewline(t, mEnd) ==
    LET end == Find(t, <<"\n">>, mEnd)
    IN  IF end = -1 THEN <<>> ELSE From(t, end + 1)

AfterLineComment(t, mEnd) ==
    LET end == Find(t, <<"\n">>, mEnd)
    IN  IF end = -1 THEN <<>> ELSE From(t, end)

\* branch "/*": what is appended to done, and the remainder
BlockCommentFill_None == <<>>

BlockCommentFill == <<" ">>

AfterBlockComment(t, mEnd) ==
    LET end == Find(t, <<"*", "/">>, mEnd)
    IN  IF end = -1 THEN <<>> ELSE From(t, end + 2)

\* branch quote: the remainder after a closed literal (m2End = m2.end())
AfterString(t, mEnd, m2End) == From(t, mEnd + m2End)

\* one iteration of the while loop on (todo, done):
\* the new todo, the new done and whether the loop was left
ScanStep(t, d) ==
    LET mStart == VoidStart(t) IN
    IF mStart = -1
    THEN [todo |-> t, done |-> d \o t, brk |-> TRUE, kind |-> "none"]
    ELSE
      LET m0   == VoidKind(t, mStart)
          mEnd == mStart + Len(m0)
          d1   == d \o Slice(t, 0, mStart)
      IN  IF m0 = <<"/", "/">>
          THEN [todo |-> AfterLineComment(t, mEnd), done |-> d1,
                brk |-> FALSE, kind |-> "line"]
          ELSE IF m0 = <<"/", "*">>
          THEN [todo |-> AfterBlockComment(t, mEnd),
                done |-> d1 \o BlockCommentFill,
                brk |-> FALSE,
                kind |-> IF Find(t, <<"*", "/">>, mEnd) = -1
                         THEN "block_open" ELSE "block"]
          ELSE LET m2End == QuoteEnd(From(t, mEnd), m0[1])
               IN  IF m2End = -1
                   THEN [todo |-> t, done |-> d1, brk |-> TRUE,
                         kind |-> "unclosed"]
                   ELSE [todo |-> AfterString(t, mEnd, m2End), done |-> d1,
                         brk |-> FALSE, kind |-> "string"]

\* the whole function, as extract_version calls it
RECURSIVE ScanLoop(_, _)
ScanLoop(t, d) ==
    LET s == ScanStep(t, d)
    IN  IF s.brk THEN s.done ELSE ScanLoop(s.todo, s.done)

remove_comments_strings(lines) == ScanLoop(JoinLines(lines), <<>>)

(* ---------------------------------------------------------------------- *)
(* remove_comments_strings as a state machine: one step per loop iteration *)
(* ---------------------------------------------------------------------- *)

MaxLen == 5

Chars == {"/", "*", "'", "\"", "\\", "\n", "a"}

\* the inputs worked out in the documentation, beyond MaxLen
LongTexts ==
    { <<"'", "a", "\\", "'", "b", "'">>,
      <<"a", "/", "*", "\n", "\n", "*", "/", "a">>,
      <<"a", "\"", "\\", "\"", "\n", "\"", "/", "/", "a">> }

Texts == UNION {[1..n -> Chars] : n \in 0..MaxLen} \cup LongTexts

StripIdle == prg = <<>> /\ todo = <<>> /\ done = <<>> /\ pc = "idle"

ParseIdle == solidity_code = <<>> /\ result = <<>> /\ ret = <<>> /\ ppc = "idle"

ExtractIdle ==
    /\ all_versions = <<>>
    /\ file = <<>>
    /\ caller = ""
    /\ version_line = <<>>
    /\ pragma_dict = <<>>
    /\ version_constraint = <<>>
    /\ idx = 0
    /\ version = <<>>
    /\ solc_env = <<>>
    /\ binary = <<>>
    /\ calls = {}
    /\ epc = "idle"

InitStrip ==
    /\ prg = <<>>
    /\ todo = <<>>
    /\ done = <<>>
    /\ pc = "start"
    /\ ParseIdle
    /\ ExtractIdle

\* the call remove_comments_strings(prg): todo = "\n".join(prg); done = ""
StripBegin ==
    /\ pc = "start"
    /\ \E text \in Texts : prg' = SplitLines(text)
    /\ todo' = JoinLines(prg')
    /\ done' = <<>>
    /\ pc' = "scan"
    /\ UNCHANGED <<parseVars, extractVars>>

\* one iteration: the assignments of the branch taken
ScanApply ==
    /\ todo' = ScanStep(todo, done).todo
    /\ done' = ScanStep(todo, done).done
    /\ pc' = IF ScanStep(todo, done).brk THEN "return" ELSE "scan"
    /\ UNCHANGED <<prg, parseVars, extractVars>>

\* if not m: done += todo; break
ScanNoMatch ==
    /\ pc = "scan"
    /\ ScanStep(todo, done).kind = "none"
    /\ ScanApply

\* if m[0] == "//"
ScanLineComment ==
    /\ pc = "scan"
    /\ ScanStep(todo, done).kind = "line"
    /\ ScanApply

\* elif m[0] == "/*", with a closing "*/"
ScanBlockComment ==
    /\ pc = "scan"
    /\ ScanStep(todo, done).kind = "block"
    /\ ScanApply

\* elif m[0] == "/*", end == -1
ScanUnclosedBlock ==
    /\ pc = "scan"
    /\ ScanStep(todo, done).kind = "block_open"
    /\ ScanApply

\* else: a quote with a closing quote
ScanString ==
    /\ pc = "scan"
    /\ ScanStep(todo, done).kind = "string"
    /\ ScanApply

\* else: a quote, if not m2: break
ScanUnclosedString ==
    /\ pc = "scan"
    /\ ScanStep(todo, done).kind = "unclosed"
    /\ ScanApply

NextStrip ==
    \/ StripBegin
    \/ ScanNoMatch
    \/ ScanLineComment
    \/ ScanBlockComment
    \/ ScanUnclosedBlock
    \/ ScanString
    \/ ScanUnclosedString

SpecStrip == InitStrip /\ [][NextStrip]_vars

(* ---------------------------------------------------------------------- *)
(* parse_pragma: the pyparsing grammar, element by element                 *)
(* ---------------------------------------------------------------------- *)

\* Python's None
None == <<"None">>

\* pyparsing's default whitespace, skipped before every element
WhiteChars == {" ", "\t", "\n", "\r"}

Digits == {"0", "1", "2", "3", "4", "5", "6", "7", "8", "9"}

\* the end of the longest run of characters of set that starts at loc
RECURSIVE RunEnd(_, _, _)
RunEnd(s, loc, set) ==
    IF loc < Len(s) /\ s[loc + 1] \in set THEN RunEnd(s, loc + 1, set) ELSE loc

SkipWhite(s, loc) == RunEnd(s, loc, WhiteChars)

NoMatch(loc) == [ok |-> FALSE, loc |-> loc, toks |-> <<>>]

\* Word(chars): one or more characters out of chars, after whitespace
WordAt(s, loc, chars) ==
    LET a == SkipWhite(s, loc)
        b == RunEnd(s, a, chars)
    IN  IF b > a THEN [ok |-> TRUE, loc |-> b, toks |-> <<Slice(s, a, b)>>]
        ELSE NoMatch(loc)

\* Combine(Word(c) + Optional(Word("="))): adjacent, one joined token
CombineAt(s, loc, c) ==
    LET a == SkipWhite(s, loc)
        b == RunEnd(s, a, {c})
        e == RunEnd(s, b, {"="})
    IN  IF b > a THEN [ok |-> TRUE, loc |-> e, toks |-> <<Slice(s, a, e)>>]
        ELSE NoMatch(loc)

\* lt = Word("<"), gtr = Word(">"), eq = Word("="), carrot = Word("^")
\* inequality = Optional(eq | (Combine(gtr + Optional(eq)) | Combine(lt + Optional(eq))))
InequalityAt(s, loc) ==
    IF WordAt(s, loc, {"="}).ok THEN WordAt(s, loc, {"="})
    ELSE IF CombineAt(s, loc, ">").ok THEN CombineAt(s, loc, ">")
    ELSE IF CombineAt(s, loc, "<").ok THEN CombineAt(s, loc, "<")
    ELSE [ok |-> TRUE, loc |-> loc, toks |-> <<>>]

\* version = Regex(r"\s*[0-9]+\s*\.\s*[0-9]+\s*(\.\s*[0-9]+)?")
VersionAt(s, loc) ==
    LET a  == SkipWhite(s, loc)
        p1 == RunEnd(s, a, Digits)
        p2 == SkipWhite(s, p1)
        p3 == SkipWhite(s, p2 + 1)
        p4 == RunEnd(s, p3, Digits)
        p5 == SkipWhite(s, p4)
        p6 == SkipWhite(s, p5 + 1)
        p7 == RunEnd(s, p6, Digits)
        e  == IF MatchAt(s, <<".">>, p5) /\ p7 > p6 THEN p7 ELSE p5
    IN  IF p1 > a /\ MatchAt(s, <<".">>, p2) /\ p4 > p3
        THEN [ok |-> TRUE, loc |-> e, toks |-> <<Slice(s, a, e)>>]
        ELSE NoMatch(loc)

\* Word("pragma") + Word("solidity")
KeywordsAt(s, loc) ==
    LET k1 == WordAt(s, loc, {"p", "r", "a", "g", "m"})
        k2 == WordAt(s, k1.loc, {"s", "o", "l", "i", "d", "t", "y"})
    IN  IF k1.ok /\ k2.ok
        THEN [ok |-> TRUE, loc |-> k2.loc, toks |-> k1.toks \o k2.toks]
        ELSE NoMatch(loc)

\* min_version = Optional(carrot | inequality) + version
MinVersionAt(s, loc) ==
    LET c  == WordAt(s, loc, {"^"})
        op == IF c.ok THEN c ELSE InequalityAt(s, loc)
        v  == VersionAt(s, op.loc)
    IN  IF v.ok THEN [ok |-> TRUE, loc |-> v.loc, toks |-> op.toks \o v.toks]
        ELSE NoMatch(loc)

\* Optional(max_version), max_version = Optional(inequality + version)
MaxVersionAt(s, loc) ==
    LET op == InequalityAt(s, loc)
        v  == VersionAt(s, op.loc)
    IN  IF v.ok THEN [ok |-> TRUE, loc |-> v.loc, toks |-> op.toks \o v.toks]
        ELSE [ok |-> TRUE, loc |-> loc, toks |-> <<>>]

\* pragma.parseString(solidity_code): the tokens, or a ParseException
ParseString(s) ==
    LET k  == KeywordsAt(s, 0)
        mn == MinVersionAt(s, k.loc)
        mx == MaxVersionAt(s, mn.loc)
    IN  IF k.ok /\ mn.ok
        THEN [ok |-> TRUE, loc |-> mx.loc, toks |-> k.toks \o mn.toks \o mx.toks]
        ELSE NoMatch(0)

\* the comparison operators parse_pragma recognises in result[2]
Inequalities == { <<">">>, <<"<">>, <<">", "=">>, <<"<", "=">>, <<"=">> }

\* the dictionary parse_pragma builds from the tokens (Python's result[k] is res[k + 1])
PragmaDict(res) ==
    LET min_inequality == IF res[3] \in Inequalities THEN res[3] ELSE <<>>
        min_carrot     == IF res[3] = <<"^">> THEN res[3] ELSE <<>>
    IN  [ min_carrot     |-> min_carrot,
          min_inequality |-> min_inequality,
          min_version    |-> IF min_carrot # <<>> \/ min_inequality # <<>>
                             THEN res[4] ELSE res[3],
          max_inequality |-> IF Len(res) > 4 THEN res[5] ELSE None,
          max_version    |-> IF Len(res) > 5 THEN res[6] ELSE None ]

\* parse_pragma(solidity_code) raises pyparsing's ParseException
ParseFails(s) == ~ParseString(s).ok

\* parse_pragma(solidity_code), when it returns
parse_pragma(s) == PragmaDict(ParseString(s).toks)

(* ---------------------------------------------------------------------- *)
(* semantic_version: Version, SimpleSpec and membership                    *)
(* ---------------------------------------------------------------------- *)

DigitOf(n) == <<"0", "1", "2", "3", "4", "5", "6", "7", "8", "9">>[n + 1]

ValueOf(c) == CHOOSE n \in 0..9 : DigitOf(n) = c

\* str(n) for a natural number n
RECURSIVE StrOfNat(_)
StrOfNat(n) == IF n < 10 THEN <<DigitOf(n)>>
               ELSE StrOfNat(n \div 10) \o <<DigitOf(n % 10)>>

\* int(s) for a string of digits
RECURSIVE NatOfStr(_)
NatOfStr(s) == IF s = <<>> THEN 0
               ELSE 10 * NatOfStr(SubSeq(s, 1, Len(s) - 1)) + ValueOf(s[Len(s)])

\* str(semver.Version): a registry entry <<major, minor, patch>> printed
StrOfVersion(v) ==
    StrOfNat(v[1]) \o <<".">> \o StrOfNat(v[2]) \o <<".">> \o StrOfNat(v[3])

\* Version ordering: numeric, major then minor then patch
VLess(a, b) ==
    \/ a[1] < b[1]
    \/ a[1] = b[1] /\ a[2] < b[2]
    \/ a[1] = b[1] /\ a[2] = b[2] /\ a[3] < b[3]

VLeq(a, b) == a = b \/ VLess(a, b)

\* expression.split(",")
RECURSIVE SplitComma(_)
SplitComma(s) ==
    LET end == Find(s, <<",">>, 0)
    IN  IF end = -1 THEN <<s>>
        ELSE <<Slice(s, 0, end)>> \o SplitComma(From(s, end + 1))

\* NUMBER = 0|[1-9][0-9]* (the "*" wildcard cannot come out of a pragma)
IsNumber(s) ==
    /\ s # <<>>
    /\ \A k \in 1..Len(s) : s[k] \in Digits
    /\ (Len(s) > 1 => s[1] # "0")

\* the operators of SimpleSpec.NAIVE_SPEC a pragma can produce; an absent
\* minor or patch is -1
SpecOps == { <<>>, <<"=">>, <<"=", "=">>, <<"<">>, <<"<", "=">>,
             <<">">>, <<">", "=">> }

\* one clause matched against NAIVE_SPEC: operator, major[.minor[.patch]]
ParseClause(c) ==
    LET a     == RunEnd(c, 0, {"<", ">", "=", "^", "~", "!"})
        op    == Slice(c, 0, a)
        b     == RunEnd(c, a, Digits)
        hasMi == MatchAt(c, <<".">>, b)
        d     == IF hasMi THEN RunEnd(c, b + 1, Digits) ELSE b
        hasPa == hasMi /\ MatchAt(c, <<".">>, d)
        e     == IF hasPa THEN RunEnd(c, d + 1, Digits) ELSE d
        ok    == /\ op \in SpecOps
                 /\ IsNumber(Slice(c, a, b))
                 /\ (hasMi => IsNumber(Slice(c, b + 1, d)))
                 /\ (hasPa => IsNumber(Slice(c, d + 1, e)))
                 /\ e = Len(c)
    IN  IF ok
        THEN [ok |-> TRUE, op |-> op,
              major |-> NatOfStr(Slice(c, a, b)),
              minor |-> IF hasMi THEN NatOfStr(Slice(c, b + 1, d)) ELSE -1,
              patch |-> IF hasPa THEN NatOfStr(Slice(c, d + 1, e)) ELSE -1]
        ELSE [ok |-> FALSE, op |-> <<>>, major |-> -1, minor |-> -1, patch |-> -1]

\* semver.SimpleSpec(version_spec) raises ValueError: a clause does not match
SpecFails(expr) ==
    \E k \in 1..Len(SplitComma(expr)) : ~ParseClause(SplitComma(expr)[k]).ok

\* semver.SimpleSpec(version_spec), when it returns: the clauses
SimpleSpec(expr) ==
    LET blocks == SplitComma(expr)
    IN  [k \in 1..Len(blocks) |-> ParseClause(blocks[k])]

\* one clause of a SimpleSpec against a version (no prerelease, no build)
ClauseMatch(c, v) ==
    LET target    == <<c.major,
                       IF c.minor = -1 THEN 0 ELSE c.minor,
                       IF c.patch = -1 THEN 0 ELSE c.patch>>
        nextMajor == <<c.major + 1, 0, 0>>
        nextMinor == <<c.major, target[2] + 1, 0>>
    IN  IF c.op \in { <<>>, <<"=">>, <<"=", "=">> }
        THEN IF c.minor = -1 THEN VLeq(target, v) /\ VLess(v, nextMajor)
             ELSE IF c.patch = -1 THEN VLeq(target, v) /\ VLess(v, nextMinor)
             ELSE v = target
        ELSE IF c.op = <<">">>
        THEN IF c.minor = -1 THEN VLeq(nextMajor, v)
             ELSE IF c.patch = -1 THEN VLeq(nextMinor, v)
             ELSE VLess(target, v)
        ELSE IF c.op = <<">", "=">> THEN VLeq(target, v)
        ELSE IF c.op = <<"<">> THEN VLess(v, target)
        ELSE IF c.minor = -1 THEN VLess(v, nextMajor)
             ELSE IF c.patch = -1 THEN VLess(v, nextMinor)
             ELSE VLeq(v, target)

\* semver_version in version_constraint
InSpec(v, constraint) ==
    \A k \in 1..Len(constraint) : ClauseMatch(constraint[k], v)

(* ---------------------------------------------------------------------- *)
(* extract_version                                                         *)
(* ---------------------------------------------------------------------- *)

PragmaSolidity ==
    <<"p", "r", "a", "g", "m", "a", " ", "s", "o", "l", "i", "d", "i", "t", "y">>

\* the first line that contains "pragma solidity", or None
RECURSIVE FirstPragmaLine(_)
FirstPragmaLine(lines) ==
    IF lines = <<>> THEN None
    ELSE IF Contains(Head(lines), PragmaSolidity) THEN Head(lines)
    ELSE FirstPragmaLine(Tail(lines))

\* s.rstrip()
RECURSIVE RStrip(_)
RStrip(s) ==
    IF s # <<>> /\ s[Len(s)] \in WhiteChars
    THEN RStrip(SubSeq(s, 1, Len(s) - 1)) ELSE s

\* s.replace(" ", "").replace("\t", "")
RECURSIVE DropBlanks(_)
DropBlanks(s) ==
    IF s = <<>> THEN <<>>
    ELSE IF Head(s) \in {" ", "\t"} THEN DropBlanks(Tail(s))
    ELSE <<Head(s)>> \o DropBlanks(Tail(s))

\* lines 213-218: the stripped text's first pragma line, rstripped, or None
VersionLineOf_Unstripped(f) ==
    LET found == FirstPragmaLine(SplitLines(f))
    IN  IF found = None THEN None ELSE RStrip(found)

VersionLineOf(f) ==
    LET cleaned == remove_comments_strings(SplitLines(f))
        found   == FirstPragmaLine(SplitLines(cleaned))
    IN  IF found = None THEN None ELSE RStrip(found)

\* lines 223-225: drop one trailing ";" and what precedes "pragma"
TrimLine(l) ==
    LET l1 == IF l[Len(l)] = ";" THEN SubSeq(l, 1, Len(l) - 1) ELSE l
    IN  From(l1, Find(l1, <<"p", "r", "a", "g", "m", "a">>, 0))

\* lines 228-241: the expression handed to SimpleSpec
VersionSpecOf(d) ==
    LET min_version == DropBlanks(d.min_version)
        max_version == IF d.max_version = None THEN None
                       ELSE DropBlanks(d.max_version)
    IN  IF max_version # None /\ max_version # <<>>
        THEN d.min_inequality \o min_version \o <<",">>
               \o d.max_inequality \o max_version
        ELSE min_version

\* line 247: "0.5.17" in str(semver_version)
Broken_Never(v) == FALSE

Broken(v) == Contains(StrOfVersion(v), <<"0", ".", "5", ".", "1", "7">>)

(* ---------------------------------------------------------------------- *)
(* parse_pragma as a state machine                                         *)
(* ---------------------------------------------------------------------- *)

\* the lines handed to parse_pragma: keyword keyword prefix version suffix rest
FirstWords ==
    { <<"p", "r", "a", "g", "m", "a">>,
      <<"g", "r", "a", "m">>,
      <<"p", "r", "a", "g", "m", "m", "a">> }

SecondWords ==
    { <<"s", "o", "l", "i", "d", "i", "t", "y">>,
      <<"s", "o", "l", "i", "d", "d", "i", "t", "y">> }

Prefixes ==
    { <<>>,
      <<"^">>,
      <<"=">>,
      <<"<">>,
      <<"<", "=">>,
      <<">">>,
      <<">", "=">>,
      <<">", ">", "=">>,
      <<"=", "=">>,
      <<"^", "^">>,
      <<"=", ">">> }

VersionTexts ==
    { <<"0", ".", "4", ".", "0">>,
      <<"0", ".", "8">>,
      <<"0", " ", ".", " ", "5", " ", ".", "1">>,
      <<"a", "b", "c">> }

Suffixes ==
    { <<>>,
      <<" ", "<", "0", ".", "6", ".", "0">>,
      <<"<", "0", ".", "6", ".", "0">>,
      <<"<", "=", "0", ".", "6">>,
      <<" ", "0", ".", "6", ".", "0">>,
      <<"<", "<", "0", ".", "6", ".", "0">>,
      <<"<">> }

Trailers ==
    { <<>>,
      <<" ", "a", "b", "c">> }

PragmaLine(w1, w2, pre, v, suf, rest) ==
    w1 \o <<" ">> \o w2 \o <<" ">> \o pre \o v \o suf \o rest

Lines ==
    { PragmaLine(w1, w2, pre, v, suf, rest) :
        w1 \in FirstWords, w2 \in SecondWords, pre \in Prefixes,
        v \in VersionTexts, suf \in Suffixes, rest \in Trailers }

InitParse ==
    /\ solidity_code = <<>>
    /\ result = <<>>
    /\ ret = None
    /\ ppc = "start"
    /\ StripIdle
    /\ ExtractIdle

\* the call parse_pragma(solidity_code)
ParseCall ==
    /\ ppc = "start"
    /\ solidity_code' \in Lines
    /\ ppc' = "parse"
    /\ UNCHANGED <<result, ret, stripVars, extractVars>>

\* line 151: pragma.parseString raises
ParseRaise ==
    /\ ppc = "parse"
    /\ ParseFails(solidity_code)
    /\ ppc' = "raise"
    /\ UNCHANGED <<solidity_code, result, ret, stripVars, extractVars>>

\* line 151: result = pragma.parseString(solidity_code)
ParseTokens ==
    /\ ppc = "parse"
    /\ ~ParseFails(solidity_code)
    /\ result' = ParseString(solidity_code).toks
    /\ ppc' = "build"
    /\ UNCHANGED <<solidity_code, ret, stripVars, extractVars>>

\* lines 152-161: the returned dictionary
ParseReturn ==
    /\ ppc = "build"
    /\ ret' = PragmaDict(result)
    /\ ppc' = "return"
    /\ UNCHANGED <<solidity_code, result, stripVars, extractVars>>

NextParse ==
    \/ ParseCall
    \/ ParseRaise
    \/ ParseTokens
    \/ ParseReturn

SpecParse == InitParse /\ [][NextParse]_vars

(* ---------------------------------------------------------------------- *)
(* extract_version and extract_binary as a state machine                   *)
(* ---------------------------------------------------------------------- *)

\* the source files read
Sources ==
    { <<"p", "r", "a", "g", "m", "a", " ", "s", "o", "l", "i", "d", "i",
        "t", "y", " ", "^", "0", ".", "8", ".", "0", ";", "\n", "/", "/",
        " ", "c", "o", "m", "m", "e", "n", "t", "\n", "c", "o", "n", "t",
        "r", "a", "c", "t", " ", "C", " ", "{", "}">>,
      <<"c", "o", "n", "t", "r", "a", "c", "t", " ", "C", " ", "{", "}">>,
      <<"/", "/", " ", "p", "r", "a", "g", "m", "a", " ", "s", "o", "l",
        "i", "d", "i", "t", "y", " ", "^", "0", ".", "8", ".", "0", ";",
        "\n", "c", "o", "n", "t", "r", "a", "c", "t", " ", "C", " ", "{",
        "}">>,
      <<"s", "t", "r", "i", "n", "g", " ", "s", " ", "=", " ", "'", "p",
        "r", "a", "g", "m", "a", " ", "s", "o", "l", "i", "d", "i", "t",
        "y", " ", "0", ".", "8", ".", "0", "'", ";">>,
      <<"/", "*", " ", "p", "r", "a", "g", "m", "a", " ", "s", "o", "l",
        "i", "d", "i", "t", "y", " ", "^", "0", ".", "8", ".", "0", ";">>,
      <<"p", "r", "a", "g", "m", "a", " ", "e", "x", "p", "e", "r", "i",
        "m", "e", "n", "t", "a", "l", " ", "A", "B", "I", "E", "n", "c",
        "o", "d", "e", "r", "V", "2", ";">>,
      <<"p", "r", "a", "g", "m", "a", " ", "s", "o", "l", "i", "d", "i",
        "t", "y", " ", "0", ".", "5", ".", "1", "7", ";">>,
      <<"p", "r", "a", "g", "m", "a", " ", "s", "o", "l", "i", "d", "i",
        "t", "y", " ", "<", "=", "0", ".", "5", ".", "1", "7", ";">>,
      <<"p", "r", "a", "g", "m", "a", " ", "s", "o", "l", "i", "d", "i",
        "t", "y", " ", ">", "=", "0", ".", "5", ".", "0", "<", "0", ".",
        "6", ".", "0", ";">>,
      <<"p", "r", "a", "g", "m", "a", " ", "s", "o", "l", "i", "d", "i",
        "t", "y", " ", ">", "0", ".", "8", ".", "0", ";">>,
      <<"/", "*", " ", "v", " ", "*", "/", " ", "p", "r", "a", "g", "m",
        "a", " ", "s", "o", "l", "i", "d", "i", "t", "y", " ", "0", ".",
        "8", ";", " ">>,
      <<"p", "r", "a", "g", "m", "a", " ", "s", "o", "l", "i", "d", "i",
        "t", "y", " ", "^", "0", ".", "5", ".", "0", " ", "<", "0", ".",
        "8", ".", "1", ";">>,
      <<"p", "r", "a", "g", "m", "a", " ", "s", "o", "l", "i", "d", "i",
        "t", "y", " ", "0", ".", "5", ".", "0", "<", "0", ".", "8", ".",
        "0", ";">>,
      <<"p", "r", "a", "g", "m", "a", " ", "s", "o", "l", "i", "d", "i",
        "t", "y", " ", ">", ">", "=", "0", ".", "4", ".", "0", ";">>,
      <<"p", "r", "a", "g", "m", "a", " ", "s", "o", "l", "i", "d", "i",
        "t", "y", ";">> }

\* the versions solcx may list, and the registries built from them
Versions == { <<0, 5, 0>>, <<0, 5, 17>>, <<0, 7, 6>>, <<0, 8, 0>>, <<0, 8, 1>> }

MaxRegistry == 3

Registries == UNION {[1..n -> Versions] : n \in 0..MaxRegistry}

\* the values os.environ.get("SOLC") may give
EnvValues == { None, <<>>, <<"/", "s", "o", "l", "c">> }

\* lines 164-168: all_versions is set once, when the module is imported
InitExtract ==
    /\ all_versions \in Registries
    /\ file = None
    /\ caller = ""
    /\ version_line = None
    /\ pragma_dict = None
    /\ version_constraint = None
    /\ idx = 0
    /\ version = None
    /\ solc_env = None
    /\ binary = None
    /\ calls = {}
    /\ epc = "start"
    /\ StripIdle
    /\ ParseIdle

\* a direct call extract_version(file), file a text or None
CallExtractVersion ==
    /\ epc = "start"
    /\ file' \in Sources \cup {None}
    /\ caller' = "extract_version"
    /\ epc' = "entry"
    /\ UNCHANGED <<all_versions, version_line, pragma_dict, version_constraint,
                   idx, version, solc_env, binary, calls, stripVars, parseVars>>

\* lines 253-258: extract_binary reads the file and calls extract_version
CallExtractBinary ==
    /\ epc = "start"
    /\ file' \in Sources
    /\ caller' = "extract_binary"
    /\ epc' = "entry"
    /\ UNCHANGED <<all_versions, version_line, pragma_dict, version_constraint,
                   idx, version, solc_env, binary, calls, stripVars, parseVars>>

\* lines 210-211: if file is None: return None
FileIsNone ==
    /\ epc = "entry"
    /\ file = None
    /\ version' = None
    /\ epc' = "returned"
    /\ UNCHANGED <<all_versions, file, caller, version_line, pragma_dict,
                   version_constraint, idx, solc_env, binary, calls,
                   stripVars, parseVars>>

\* lines 212-220: no line of the stripped text holds "pragma solidity"
NoVersionLine ==
    /\ epc = "entry"
    /\ file # None
    /\ VersionLineOf(file) = None
    /\ version' = None
    /\ epc' = "returned"
    /\ UNCHANGED <<all_versions, file, caller, version_line, pragma_dict,
                   version_constraint, idx, solc_env, binary, calls,
                   stripVars, parseVars>>

\* lines 212-225: the version line is found and trimmed
FoundVersionLine ==
    /\ epc = "entry"
    /\ file # None
    /\ VersionLineOf(file) # None
    /\ version_line' = TrimLine(VersionLineOf(file))
    /\ epc' = "parse"
    /\ UNCHANGED <<all_versions, file, caller, pragma_dict, version_constraint,
                   idx, version, solc_env, binary, calls, stripVars, parseVars>>

\* line 226: parse_pragma raises
PragmaRaises ==
    /\ epc = "parse"
    /\ ParseFails(version_line)
    /\ calls' = calls \cup {"parse_pragma"}
    /\ epc' = "raise"
    /\ UNCHANGED <<all_versions, file, caller, version_line, pragma_dict,
                   version_constraint, idx, version, solc_env, binary,
                   stripVars, parseVars>>

\* line 226: pragma_dict = parse_pragma(version_line)
PragmaParsed ==
    /\ epc = "parse"
    /\ ~ParseFails(version_line)
    /\ pragma_dict' = parse_pragma(version_line)
    /\ calls' = calls \cup {"parse_pragma"}
    /\ epc' = "spec"
    /\ UNCHANGED <<all_versions, file, caller, version_line,
                   version_constraint, idx, version, solc_env, binary,
                   stripVars, parseVars>>

\* lines 228-242: semver.SimpleSpec(version_spec) raises
SpecRaises ==
    /\ epc = "spec"
    /\ SpecFails(VersionSpecOf(pragma_dict))
    /\ calls' = calls \cup {"SimpleSpec"}
    /\ epc' = "raise"
    /\ UNCHANGED <<all_versions, file, caller, version_line, pragma_dict,
                   version_constraint, idx, version, solc_env, binary,
                   stripVars, parseVars>>

\* lines 228-242: version_constraint = semver.SimpleSpec(version_spec)
SpecBuilt ==
    /\ epc = "spec"
    /\ ~SpecFails(VersionSpecOf(pragma_dict))
    /\ version_constraint' = SimpleSpec(VersionSpecOf(pragma_dict))
    /\ calls' = calls \cup {"SimpleSpec"}
    /\ idx' = 0
    /\ epc' = "loop"
    /\ UNCHANGED <<all_versions, file, caller, version_line, pragma_dict,
                   version, solc_env, binary, stripVars, parseVars>>

\* lines 244-246: the candidate is not in the constraint
LoopNext ==
    /\ epc = "loop"
    /\ idx < Len(all_versions)
    /\ ~InSpec(all_versions[idx + 1], version_constraint)
    /\ idx' = idx + 1
    /\ calls' = calls \cup {"all_versions"}
    /\ UNCHANGED <<all_versions, file, caller, version_line, pragma_dict,
                   version_constraint, version, solc_env, binary, epc,
                   stripVars, parseVars>>

\* lines 247-249: the candidate is in the constraint, and skipped
LoopSkipBroken ==
    /\ epc = "loop"
    /\ idx < Len(all_versions)
    /\ InSpec(all_versions[idx + 1], version_constraint)
    /\ Broken(all_versions[idx + 1])
    /\ idx' = idx + 1
    /\ calls' = calls \cup {"all_versions"}
    /\ UNCHANGED <<all_versions, file, caller, version_line, pragma_dict,
                   version_constraint, version, solc_env, binary, epc,
                   stripVars, parseVars>>

\* line 250: return str(semver_version)
LoopReturn ==
    /\ epc = "loop"
    /\ idx < Len(all_versions)
    /\ InSpec(all_versions[idx + 1], version_constraint)
    /\ ~Broken(all_versions[idx + 1])
    /\ version' = StrOfVersion(all_versions[idx + 1])
    /\ calls' = calls \cup {"all_versions"}
    /\ epc' = "returned"
    /\ UNCHANGED <<all_versions, file, caller, version_line, pragma_dict,
                   version_constraint, idx, solc_env, binary,
                   stripVars, parseVars>>

\* line 244: the registry is exhausted, the function falls off its end
LoopExhausted ==
    /\ epc = "loop"
    /\ idx = Len(all_versions)
    /\ version' = None
    /\ calls' = calls \cup {"all_versions"}
    /\ epc' = "returned"
    /\ UNCHANGED <<all_versions, file, caller, version_line, pragma_dict,
                   version_constraint, idx, solc_env, binary,
                   stripVars, parseVars>>

\* extract_version was called directly: nothing follows
DirectDone ==
    /\ epc = "returned"
    /\ caller = "extract_version"
    /\ epc' = "done"
    /\ UNCHANGED <<all_versions, file, caller, version_line, pragma_dict,
                   version_constraint, idx, version, solc_env, binary, calls,
                   stripVars, parseVars>>

\* lines 260-261: return os.environ.get("SOLC") or "solc", version
BinaryDefault ==
    /\ epc = "returned"
    /\ caller = "extract_binary"
    /\ version = None
    /\ \E env \in EnvValues :
          /\ solc_env' = env
          /\ binary' = IF env # None /\ env # <<>> THEN env
                       ELSE <<"s", "o", "l", "c">>
    /\ epc' = "done"
    /\ UNCHANGED <<all_versions, file, caller, version_line, pragma_dict,
                   version_constraint, idx, version, calls,
                   stripVars, parseVars>>

\* line 262 and solc_exists: install and select the version, return its binary
BinaryInstalled ==
    /\ epc = "returned"
    /\ caller = "extract_binary"
    /\ version # None
    /\ calls' = calls \cup {"install_solc", "set_solc_version"}
    /\ binary' = <<"s", "o", "l", "c", "-", "v">> \o version
    /\ epc' = "done"
    /\ UNCHANGED <<all_versions, file, caller, version_line, pragma_dict,
                   version_constraint, idx, version, solc_env,
                   stripVars, parseVars>>

NextExtract ==
    \/ CallExtractVersion
    \/ CallExtractBinary
    \/ FileIsNone
    \/ NoVersionLine
    \/ FoundVersionLine
    \/ PragmaRaises
    \/ PragmaParsed
    \/ SpecRaises
    \/ SpecBuilt
    \/ LoopNext
    \/ LoopSkipBroken
    \/ LoopReturn
    \/ LoopExhausted
    \/ DirectDone
    \/ BinaryDefault
    \/ BinaryInstalled

SpecExtract == InitExtract /\ [][NextExtract]_vars

(* ---------------------------------------------------------------------- *)
(* Properties of parse_pragma                                              *)
(* ---------------------------------------------------------------------- *)

\* the lines of the documented grammar:
\* "pragma" "solidity" [prefix] version [operator version]
GrammarPrefixes ==
    { <<>>,
      <<"^">>,
      <<"=">>,
      <<"<">>,
      <<"<", "=">>,
      <<">">>,
      <<">", "=">> }

GrammarVersions ==
    { <<"0", ".", "4", ".", "0">>,
      <<"0", ".", "8">>,
      <<"0", " ", ".", " ", "5", " ", ".", "1">> }

GrammarSuffixes ==
    { <<>>,
      <<" ", "<", "0", ".", "6", ".", "0">>,
      <<"<", "0", ".", "6", ".", "0">>,
      <<"<", "=", "0", ".", "6">> }

GrammarLines ==
    { PragmaLine(<<"p", "r", "a", "g", "m", "a">>,
                 <<"s", "o", "l", "i", "d", "i", "t", "y">>,
                 pre, v, suf, <<>>) :
        pre \in GrammarPrefixes, v \in GrammarVersions, suf \in GrammarSuffixes }

\* C3: in the dictionary parse_pragma returns, max_inequality is present
\* exactly when max_version is, and a present max_inequality is a comparison
\* operator, never a version text.
C3_MaxPair ==
    ppc = "return" =>
      /\ (ret.max_inequality = None) <=> (ret.max_version = None)
      /\ ret.max_inequality # None => ret.max_inequality \in Inequalities

\* C5: parse_pragma raises, and returns no dictionary, for every line outside
\* the grammar: a repeated operator character, a keyword misspelt with the
\* same letters, text after the last version.
C5_RejectsOutsideGrammar ==
    /\ ppc \in {"build", "return"} => solidity_code \in GrammarLines
    /\ ppc = "raise" => ret = None

(* ---------------------------------------------------------------------- *)
(* Properties of extract_version and extract_binary                        *)
(* ---------------------------------------------------------------------- *)

BrokenRelease == <<"0", ".", "5", ".", "1", "7">>

\* C1: extract_version never returns "0.5.17": a registry entry 0.5.17 that
\* satisfies the constraint is skipped and the scan goes on with the next.
C1_NeverBroken == version # BrokenRelease

C1_Witness ==
    /\ epc = "done"
    /\ "all_versions" \in calls
    /\ Len(all_versions) >= 2
    /\ all_versions[1] = <<0, 5, 17>>
    /\ InSpec(all_versions[1], version_constraint)
    /\ version = StrOfVersion(all_versions[2])

\* the constraint a pragma states, read as C2 reads it: caret = compatible
\* release, an operator = numeric ordering, a bare version = that version
\* (any patch when it has none), a second pair = an upper bound as well
TripleOf(text) ==
    LET c == ParseClause(DropBlanks(text))
    IN  <<c.major, IF c.minor = -1 THEN 0 ELSE c.minor,
                   IF c.patch = -1 THEN 0 ELSE c.patch>>

CaretUpper(t) ==
    IF t[1] > 0 THEN <<t[1] + 1, 0, 0>>
    ELSE IF t[2] > 0 THEN <<0, t[2] + 1, 0>>
    ELSE <<0, 0, t[3] + 1>>

Compares(op, v, t) ==
    IF op = <<">">> THEN VLess(t, v)
    ELSE IF op = <<">", "=">> THEN VLeq(t, v)
    ELSE IF op = <<"<">> THEN VLess(v, t)
    ELSE IF op = <<"<", "=">> THEN VLeq(v, t)
    ELSE v = t

PragmaSatisfied(d, v) ==
    /\ IF d.min_carrot # <<>>
       THEN VLeq(TripleOf(d.min_version), v)
              /\ VLess(v, CaretUpper(TripleOf(d.min_version)))
       ELSE IF d.min_inequality # <<>>
       THEN Compares(d.min_inequality, v, TripleOf(d.min_version))
       ELSE IF ParseClause(DropBlanks(d.min_version)).patch = -1
       THEN v[1] = TripleOf(d.min_version)[1] /\ v[2] = TripleOf(d.min_version)[2]
       ELSE v = TripleOf(d.min_version)
    /\ d.max_version # None
         => Compares(d.max_inequality, v, TripleOf(d.max_version))

\* a dictionary of the documented shape: version texts, and both or neither
\* of the second pair
ProperPragma(d) ==
    /\ ParseClause(DropBlanks(d.min_version)).ok
    /\ ParseClause(DropBlanks(d.min_version)).op = <<>>
    /\ \/ d.max_inequality = None /\ d.max_version = None
       \/ /\ d.max_inequality \in Inequalities
          /\ d.max_version # None
          /\ ParseClause(DropBlanks(d.max_version)).ok
          /\ ParseClause(DropBlanks(d.max_version)).op = <<>>

\* the first registry entry that satisfies the pragma and is not 0.5.17
RECURSIVE FirstSatisfying(_, _)
FirstSatisfying(d, registry) ==
    IF registry = <<>> THEN None
    ELSE IF PragmaSatisfied(d, Head(registry)) /\ Head(registry) # <<0, 5, 17>>
    THEN StrOfVersion(Head(registry))
    ELSE FirstSatisfying(d, Tail(registry))

\* C2: when the first pragma line parses, extract_version returns the first
\* registry entry, in the registry's order, that satisfies the pragma's
\* constraint and is not 0.5.17, and None exactly when there is none.
C2_FirstSatisfying ==
    ("SimpleSpec" \in calls /\ ProperPragma(pragma_dict)) =>
      /\ epc # "raise"
      /\ epc \in {"returned", "done"}
           => version = FirstSatisfying(pragma_dict, all_versions)

\* no line of the stripped text holds "pragma solidity"
NoPragmaSolidity(f) ==
    \/ f = None
    \/ LET lines == SplitLines(remove_comments_strings(SplitLines(f)))
       IN  \A k \in 1..Len(lines) :
              ~Contains(lines[k], <<"p", "r", "a", "g", "m", "a", " ", "s",
                              "o", "l", "i", "d", "i", "t", "y">>)

\* C4: when the source is None or its stripped text has no line holding
\* "pragma solidity", extract_version returns None without calling
\* parse_pragma or reading the registry, and extract_binary returns the SOLC
\* environment value (or "solc" when unset or empty) with None, installing
\* and selecting nothing.
C4_NoPragmaShortCircuit ==
    (epc # "start" /\ NoPragmaSolidity(file)) =>
      /\ epc \in {"entry", "returned", "done"}
      /\ calls = {}
      /\ version = None
      /\ (epc = "done" /\ caller = "extract_binary")
           => binary = IF solc_env # None /\ solc_env # <<>> THEN solc_env
                       ELSE <<"s", "o", "l", "c">>

C4_Witness ==
    /\ epc = "done"
    /\ caller = "extract_binary"
    /\ NoPragmaSolidity(file)
    /\ Contains(file, <<"p", "r", "a", "g", "m", "a">>)
    /\ solc_env = <<"/", "s", "o", "l", "c">>
    /\ binary = solc_env
    /\ version = None

(* ---------------------------------------------------------------------- *)
(* Properties of remove_comments_strings                                   *)
(* ---------------------------------------------------------------------- *)

\* the text handed to the scan
Text == JoinLines(prg)

Returned == pc = "return"

IsQuote(c) == c \in {"'", "\""}

IsPrefix(a, b) == Len(a) <= Len(b) /\ SubSeq(b, 1, Len(a)) = a

\* position of the first quote equal to t[i] after position i that has no
\* backslash right before it (0-based, in t itself), -1 when there is none
ClosingQuote(t, i) ==
    LET hits == {j \in (i + 1)..(Len(t) - 1) :
                    t[j + 1] = t[i + 1] /\ t[j] # "\\"}
    IN  IF hits = {} THEN -1 ELSE Min(hits)

\* some comment or string literal of t has no end
RECURSIVE Unterminated(_)
Unterminated(t) ==
    LET s == ScanStep(t, <<>>)
    IN  IF s.kind \in {"unclosed", "block_open"} THEN TRUE
        ELSE IF s.brk THEN FALSE
        ELSE Unterminated(s.todo)

\* some closed block comment or string literal of t holds a newline
RECURSIVE NewlineInSpan(_)
NewlineInSpan(t) ==
    LET s == ScanStep(t, <<>>)
    IN  IF s.brk THEN FALSE
        ELSE IF /\ s.kind \in {"block", "string"}
                /\ CountNL(Slice(t, VoidStart(t), Len(t) - Len(s.todo))) > 0
             THEN TRUE
        ELSE NewlineInSpan(s.todo)

\* C6: a string literal opened by a quote ends at the first following quote of
\* the same kind that has no backslash right before it; the span from the
\* opening to that closing quote is dropped, the text before it is kept and
\* the text after it is what the scan goes on with.
C6_StringSpanRemoved ==
    Returned =>
      LET i == VoidStart(Text) IN
        (i # -1 /\ IsQuote(Text[i + 1]) /\ ClosingQuote(Text, i) # -1)
          => done = Slice(Text, 0, i)
                      \o ScanLoop(From(Text, ClosingQuote(Text, i) + 1), <<>>)

C6_Witness ==
    /\ Returned
    /\ Text = <<"'", "a", "\\", "'", "b", "'">>
    /\ done = <<>>

\* C7: the scan ends for every input, unterminated constructs included: every
\* iteration either leaves the loop or strictly shortens todo (so at most
\* Len(todo) + 1 iterations run), and done only ever grows at its end, so
\* what was copied before a malformed construct is kept.
C7_Terminates ==
    [][pc = "scan" =>
          /\ pc' \in {"scan", "return"}
          /\ (pc' = "scan" => Len(todo') < Len(todo))
          /\ IsPrefix(done, done')]_vars

C7_Witness ==
    /\ Returned
    /\ Unterminated(Text)
    /\ done # <<>>
    /\ IsPrefix(done, Text)

\* C8 as stated: a block comment with no closing "*/" ends the scan with no
\* space inserted: the output is exactly the text before the "/*".
C8_Original ==
    Returned =>
      LET i == VoidStart(Text) IN
        (i # -1 /\ MatchAt(Text, <<"/", "*">>, i)
                /\ Find(Text, <<"*", "/">>, i + 2) = -1)
          => done = Slice(Text, 0, i)

\* C8 amended: a closed block comment is replaced by exactly one space; a
\* block comment with no closing "*/" ends the scan with the remainder
\* discarded and one space appended: the output is the text before the "/*"
\* followed by one space.
C8_BlockComment ==
    Returned =>
      LET i == VoidStart(Text)
          e == Find(Text, <<"*", "/">>, i + 2)
      IN  (i # -1 /\ MatchAt(Text, <<"/", "*">>, i))
            => IF e = -1
               THEN done = Slice(Text, 0, i) \o <<" ">>
               ELSE done = Slice(Text, 0, i) \o <<" ">>
                             \o ScanLoop(From(Text, e + 2), <<>>)

C8_Witness ==
    /\ Returned
    /\ Text = <<"a", "/", "*", "a">>
    /\ done = <<"a", " ">>

\* C9 as stated: when every comment and string literal is terminated, the
\* output has as many newlines as the input.
C9_Original ==
    (Returned /\ ~Unterminated(Text)) => CountNL(done) = CountNL(Text)

\* C9 amended: when every comment and string literal is terminated and no
\* block comment or string literal holds a newline, the output has as many
\* newlines as the input.
C9_NewlinesKept ==
    (Returned /\ ~Unterminated(Text) /\ ~NewlineInSpan(Text))
      => CountNL(done) = CountNL(Text)

C9_Witness ==
    /\ Returned
    /\ Text = <<"/", "/", "a", "\n", "a">>
    /\ done = <<"\n", "a">>

\* C10 as stated: the output holds no trigger, and stripping it again
\* returns it unchanged.
C10_Original ==
    Returned => /\ VoidStart(done) = -1
                /\ ScanLoop(done, <<>>) = done

\* C10 amended: the output holds no quote character; when the input holds no
\* quote character the output holds no trigger at all; and whenever the
\* output holds no trigger, stripping it again returns it unchanged.
C10_Idempotent ==
    Returned =>
      /\ \A k \in 1..Len(done) : ~IsQuote(done[k])
      /\ (\A k \in 1..Len(Text) : ~IsQuote(Text[k])) => VoidStart(done) = -1
      /\ VoidStart(done) = -1 => ScanLoop(done, <<>>) = done

C10_Witness ==
    /\ Returned
    /\ Text = <<"a", "/", "*", "*", "/">>
    /\ done = <<"a", " ">>
    /\ ScanLoop(done, <<>>) = done

====
